---- MODULE Spec2Model ----
(***************************************************************************)
(* Model of f_app.py: the /chat endpoint with its core rag_answer (folio   *)
(* guard, embed, index query, threshold decision, domain gate, generated   *)
(* fallback) and the startup ingestion of initialize_app against the       *)
(* persisted collection.                                                   *)
(*                                                                         *)
(* Numbers that are floats in the source (distances, thresholds, scores)   *)
(* are integers counted in units of 1/One, so 0.7 is 70000 and             *)
(* round(x, 4) rounds to a multiple of 10 units.  Strings the code         *)
(* inspects character by character (the question, the classifier's reply)  *)
(* are sequences of one-character strings; a Devanagari character is named *)
(* by its code point ("U092B").                                            *)
(***************************************************************************)
EXTENDS Integers, Sequences, FiniteSets, TLC

VARIABLES
    pc,         \* position of the request being handled by chat()
    question,   \* QueryRequest.question
    threshold,  \* QueryRequest.similarity_threshold
    calls,      \* external calls issued by this request, in order
    failedAt,   \* the external call that raised, or "none"
    results,    \* what collection.query returned: neighbours, nearest first
    clsRaw,     \* finance_check.choices[0].message.content
    genPrompt,  \* the prompt handed to the answer generator
    genText,    \* response.choices[0].message.content
    core,       \* how rag_answer ended: returned (text, score) or raised
    response,   \* what chat() gave the HTTP caller
    store,      \* the persisted collection: key -> metadata
    corpus,     \* json_data.json as loaded
    lpc,        \* position of each process inside initialize_app
    cursor,     \* index of the next (item, lang) pair a process ingests
    addCalls,   \* number of collection.add calls issued per key
    inserting,  \* processes whose current startup has issued an add
    nInserters, \* number of startups that issued at least one add
    nStartups,  \* number of startups begun
    raced       \* some startup read count() while another was ingesting

reqVars == <<pc, question, threshold, calls, failedAt, results, clsRaw,
             genPrompt, genText, core, response>>
loadVars == <<store, corpus, lpc, cursor, addCalls, inserting, nInserters,
              nStartups, raced>>
vars == <<reqVars, loadVars>>

-----------------------------------------------------------------------------
(* Bounds *)

MaxChunks == 2
NumEntries == 2
MaxStartups == 3

(* Program constants *)

One == 100000
DefaultThreshold == 70000
FolioDigits == 7
NResults == 2

-----------------------------------------------------------------------------
(* Characters and strings *)

Digits == {"0", "1", "2", "3", "4", "5", "6", "7", "8", "9"}
Whitespace == {" ", "\n", "\t"}

IsDigit(c) == c \in Digits

LowerChar(c) ==
    CASE c = "F" -> "f" [] c = "O" -> "o" [] c = "L" -> "l" [] c = "I" -> "i"
      [] c = "N" -> "n" [] c = "U" -> "u" [] c = "M" -> "m" [] c = "B" -> "b"
      [] c = "E" -> "e" [] c = "R" -> "r" [] c = "Y" -> "y" [] c = "S" -> "s"
      [] c = "A" -> "a"
      [] OTHER -> c

UpperChar(c) ==
    CASE c = "f" -> "F" [] c = "o" -> "O" [] c = "l" -> "L" [] c = "i" -> "I"
      [] c = "n" -> "N" [] c = "u" -> "U" [] c = "m" -> "M" [] c = "b" -> "B"
      [] c = "e" -> "E" [] c = "r" -> "R" [] c = "y" -> "Y" [] c = "s" -> "S"
      [] c = "a" -> "A"
      [] OTHER -> c

Lower(s) == [i \in 1..Len(s) |-> LowerChar(s[i])]
Upper(s) == [i \in 1..Len(s) |-> UpperChar(s[i])]

RECURSIVE LStrip(_)
LStrip(s) ==
    IF s # <<>> /\ Head(s) \in Whitespace THEN LStrip(Tail(s)) ELSE s

RECURSIVE RStrip(_)
RStrip(s) ==
    IF s # <<>> /\ s[Len(s)] \in Whitespace
    THEN RStrip(SubSeq(s, 1, Len(s) - 1))
    ELSE s

Strip(s) == RStrip(LStrip(s))

\* `sub in s` of Python
Contains(s, sub) ==
    \E i \in 0..(Len(s) - Len(sub)) : SubSeq(s, i + 1, i + Len(sub)) = sub

\* re.findall(r'\d+', s): the maximal digit runs, left to right
RECURSIVE FindAllDigits(_, _)
FindAllDigits(s, run) ==
    IF s = <<>>
    THEN IF run = <<>> THEN <<>> ELSE <<run>>
    ELSE IF IsDigit(Head(s))
         THEN FindAllDigits(Tail(s), Append(run, Head(s)))
         ELSE IF run = <<>>
              THEN FindAllDigits(Tail(s), <<>>)
              ELSE <<run>> \o FindAllDigits(Tail(s), <<>>)

-----------------------------------------------------------------------------
(* rag_answer: the folio guard *)

KwFolio == <<"f", "o", "l", "i", "o">>
KwFolioNumber == <<"f", "o", "l", "i", "o", " ", "n", "u", "m", "b", "e", "r">>
KwFolioHindi == <<"U092B", "U094B", "U0932", "U093F", "U092F", "U094B">>
KwFolioNumberHindi ==
    KwFolioHindi \o <<" ", "U0928", "U0902", "U092C", "U0930">>

folio_keywords == <<KwFolio, KwFolioNumber, KwFolioHindi, KwFolioNumberHindi>>

AnyKeyword(user_query) ==
    \E k \in 1..Len(folio_keywords) :
        Contains(Lower(user_query), Lower(folio_keywords[k]))

\* mutation of FolioGuard: the length test off by one (len(num) >= 7)
FolioGuardOffByOne(user_query) ==
    LET numbers == FindAllDigits(user_query, <<>>)
    IN  \E n \in 1..Len(numbers) :
            Len(numbers[n]) >= FolioDigits /\ AnyKeyword(user_query)

FolioGuard(user_query) ==
    LET numbers == FindAllDigits(user_query, <<>>)
    IN  \E n \in 1..Len(numbers) :
            Len(numbers[n]) > FolioDigits /\ AnyKeyword(user_query)

FolioRefusal == "Sorry, I can't provide information about folio numbers."
NoSimilar == "No similar question found in the dataset."
DomainRefusal == "I'm sorry, I can only answer questions related to finance, stock market, and investments. Please ask a finance-related question."

-----------------------------------------------------------------------------
(* Inputs of a request and replies of the collaborators *)

Chunks ==
    { <<"f", "o", "l", "i", "o">>,
      <<"F", "o", "L", "I", "O">>,
      KwFolioHindi,
      <<"1", "2", "3", "4", "5", "6", "7">>,
      <<"1", "2", "3", "4", "5", "6", "7", "8">>,
      <<"8">>,
      <<" ">> }

RECURSIVE QuestionsOfLen(_)
QuestionsOfLen(n) ==
    IF n = 0
    THEN {<<>>}
    ELSE {c \o q : c \in Chunks, q \in QuestionsOfLen(n - 1)}

Questions == UNION {QuestionsOfLen(n) : n \in 0..MaxChunks}

Thresholds == {0, DefaultThreshold, One}

Distances == {0, 10000, 30000, 30005, 90000, 99999, 100000, 120000}

KnownLangs == {"english", "hinglish", "hindi"}
LangTags == KnownLangs \cup {"spanish"}

Documents == <<"q1", "q2">>
AnswersEnglish == <<"en1", "en2">>
AnswersHinglish == <<"hg1", "hg2">>
AnswersHindi == <<"hi1", "hi2">>

Metadata(i, lang) ==
    [answer_english |-> AnswersEnglish[i],
     answer_hinglish |-> AnswersHinglish[i],
     answer_hindi |-> AnswersHindi[i],
     language |-> lang]

Neighbour(i, lang, d) ==
    [document |-> Documents[i], metadata |-> Metadata(i, lang), distance |-> d]

\* what collection.query may return: at most n_results neighbours, ascending
\* by distance
QueryResults ==
    LET tops == {Neighbour(1, l, d) : l \in LangTags, d \in Distances}
        seconds(t) == {Neighbour(2, "hindi", d) : d \in {t.distance, 2 * One}}
        all == {<<>>} \cup {<<t>> : t \in tops}
                 \cup UNION {{<<t, s>> : s \in seconds(t)} : t \in tops}
    IN  {r \in all : Len(r) <= NResults}

ClassifierReplies ==
    { <<" ", "Y", "E", "S", "\n">>,
      <<"y", "e", "s">>,
      <<"N", "O">>,
      <<"m", "a", "y", "b", "e">>,
      <<>>,
      <<"Y", "E", "S", ".">> }

GeneratorReplies == {"generated answer"}

-----------------------------------------------------------------------------
(* chat(): the response built around rag_answer *)

None == <<>>
Some(x) == <<x>>

\* round(x, 4), half to even
Round4(x) ==
    LET q == x \div 10
        r == x % 10
    IN  IF r < 5 THEN q * 10
        ELSE IF r > 5 THEN (q + 1) * 10
        ELSE IF q % 2 = 0 THEN q * 10 ELSE (q + 1) * 10

\* mutation of DisplayScore: the score passed on without round()
DisplayScoreUnrounded(similarity) ==
    IF similarity # 0 THEN Some(similarity) ELSE None

\* round(similarity, 4) if similarity else None
DisplayScore(similarity) ==
    IF similarity # 0 THEN Some(Round4(similarity)) ELSE None

QueryResponse(q, answer, similarity) ==
    [http |-> 200, status |-> "success", user_query |-> q,
     bot_response |-> answer, similarity_score |-> DisplayScore(similarity),
     detail |-> ""]

\* except Exception as e: raise HTTPException(status_code=500, ...)
ErrorResponse(e) ==
    [http |-> 500, status |-> "error", user_query |-> <<>>,
     bot_response |-> "", similarity_score |-> None,
     detail |-> e]

NoResponse ==
    [http |-> 0, status |-> "", user_query |-> <<>>, bot_response |-> "",
     similarity_score |-> None, detail |-> ""]

NoCore == [kind |-> "none", text |-> "", score |-> 0]
Returned(text, score) == [kind |-> "ret", text |-> text, score |-> score]
Raised(e) == [kind |-> "raise", text |-> e, score |-> 0]

NoPrompt == [contexts |-> <<>>, user_query |-> <<>>]

\* not query.question or not query.question.strip()
IsBlank(q) == q = <<>> \/ Strip(q) = <<>>

\* rag_answer ended with outcome c: chat() turns it into the reply
Reply(q, c) ==
    /\ core' = c
    /\ response' = IF c.kind = "ret"
                   THEN QueryResponse(q, c.text, c.score)
                   ELSE ErrorResponse(c.text)
    /\ pc' = "done"

-----------------------------------------------------------------------------
(* rag_answer: threshold decision, domain gate, fallback *)

IsMatch(top_distance, similarity_threshold) ==
    top_distance <= One - similarity_threshold

LangBranch(meta) == meta.language \in {"english", "hindi", "hinglish"}

\* mutation of AnswerByLang: the hindi and hinglish branches exchanged
AnswerByLangSwapped(meta) ==
    CASE meta.language = "english" -> meta.answer_english
      [] meta.language = "hindi" -> meta.answer_hinglish
      [] meta.language = "hinglish" -> meta.answer_hindi

AnswerByLang(meta) ==
    CASE meta.language = "english" -> meta.answer_english
      [] meta.language = "hindi" -> meta.answer_hindi
      [] meta.language = "hinglish" -> meta.answer_hinglish

\* mutation of IsFinanceRelated: a prefix test (startswith("YES"))
IsFinanceRelatedPrefix(content) ==
    LET n == Upper(Strip(content))
    IN  Len(n) >= 3 /\ SubSeq(n, 1, 3) = <<"Y", "E", "S">>

\* is_finance_related = content.strip().upper(); is_finance_related != "YES"
IsFinanceRelated(content) == Upper(Strip(content)) = <<"Y", "E", "S">>

BuildPrompt(res, user_query) ==
    [contexts |-> [i \in 1..Len(res) |->
                     [q |-> res[i].document,
                      a_english |-> res[i].metadata.answer_english,
                      a_hindi |-> res[i].metadata.answer_hindi]],
     user_query |-> user_query]

\* mutation of GeneratedScore: the distance of the last neighbour
ScoreOfLast(res) == One - res[Len(res)].distance

GeneratedScore(res) == One - res[1].distance

-----------------------------------------------------------------------------
(* The request: chat() calling rag_answer, one step per external call *)

InitRequest ==
    /\ pc = "idle"
    /\ question = <<>>
    /\ threshold = DefaultThreshold
    /\ calls = <<>>
    /\ failedAt = "none"
    /\ results = <<>>
    /\ clsRaw = <<>>
    /\ genPrompt = NoPrompt
    /\ genText = ""
    /\ core = NoCore
    /\ response = NoResponse

\* chat() up to the first external call: validation, then the folio guard
ChatReceive ==
    /\ pc = "idle"
    /\ \E q \in Questions, t \in Thresholds :
        /\ question' = q
        /\ threshold' = t
        /\ IF IsBlank(q)
           THEN /\ response' = ErrorResponse("400: Question cannot be empty")
                /\ pc' = "done"
                /\ core' = core
           ELSE IF FolioGuard(q)
           THEN Reply(q, Returned(FolioRefusal, 0))
           ELSE /\ pc' = "embed"
                /\ UNCHANGED <<core, response>>
    /\ UNCHANGED <<calls, failedAt, results, clsRaw, genPrompt, genText>>
    /\ UNCHANGED loadVars

\* mutation of Embed: a failed embedding call is issued again
EmbedRetrying ==
    /\ pc = "embed"
    /\ calls' = Append(calls, "embed")
    /\ \/ /\ pc' = "query"
          /\ UNCHANGED <<failedAt, core, response>>
       \/ /\ Len(calls) < 2
          /\ UNCHANGED <<pc, failedAt, core, response>>
    /\ UNCHANGED <<question, threshold, results, clsRaw, genPrompt, genText>>
    /\ UNCHANGED loadVars

\* query_emb = get_embedding(user_query)
Embed ==
    /\ pc = "embed"
    /\ calls' = Append(calls, "embed")
    /\ \/ /\ pc' = "query"
          /\ UNCHANGED <<failedAt, core, response>>
       \/ /\ failedAt' = "embed"
          /\ Reply(question, Raised("EmbeddingServiceError"))
    /\ UNCHANGED <<question, threshold, results, clsRaw, genPrompt, genText>>
    /\ UNCHANGED loadVars

\* collection.query(...), the empty check and the threshold decision
Query ==
    /\ pc = "query"
    /\ calls' = Append(calls, "query")
    /\ \/ /\ failedAt' = "query"
          /\ Reply(question, Raised("IndexUnavailableError"))
          /\ UNCHANGED results
       \/ /\ \E r \in QueryResults :
                /\ results' = r
                /\ IF r = <<>>
                   THEN Reply(question, Returned(NoSimilar, 0))
                   ELSE IF /\ IsMatch(r[1].distance, threshold)
                           /\ LangBranch(r[1].metadata)
                   THEN Reply(question,
                              Returned(AnswerByLang(r[1].metadata),
                                       One - r[1].distance))
                   ELSE /\ pc' = "classify"
                        /\ UNCHANGED <<core, response>>
          /\ UNCHANGED failedAt
    /\ UNCHANGED <<question, threshold, clsRaw, genPrompt, genText>>
    /\ UNCHANGED loadVars

\* the finance check and the domain gate
Classify ==
    /\ pc = "classify"
    /\ calls' = Append(calls, "classify")
    /\ \/ /\ failedAt' = "classify"
          /\ Reply(question, Raised("GenerationServiceError"))
          /\ UNCHANGED clsRaw
       \/ /\ \E content \in ClassifierReplies :
                /\ clsRaw' = content
                /\ IF ~IsFinanceRelated(content)
                   THEN Reply(question, Returned(DomainRefusal, 0))
                   ELSE /\ pc' = "generate"
                        /\ UNCHANGED <<core, response>>
          /\ UNCHANGED failedAt
    /\ UNCHANGED <<question, threshold, results, genPrompt, genText>>
    /\ UNCHANGED loadVars

\* the context block, the generator call and the generated return
Generate ==
    /\ pc = "generate"
    /\ calls' = Append(calls, "generate")
    /\ genPrompt' = BuildPrompt(results, question)
    /\ \/ /\ failedAt' = "generate"
          /\ Reply(question, Raised("GenerationServiceError"))
          /\ UNCHANGED genText
       \/ /\ \E text \in GeneratorReplies :
                /\ genText' = text
                /\ Reply(question, Returned(text, GeneratedScore(results)))
          /\ UNCHANGED failedAt
    /\ UNCHANGED <<question, threshold, results, clsRaw>>
    /\ UNCHANGED loadVars

\* the reply has gone out; the handler is free for the next request
Deliver ==
    /\ pc = "done"
    /\ pc' = "idle"
    /\ question' = <<>>
    /\ threshold' = DefaultThreshold
    /\ calls' = <<>>
    /\ failedAt' = "none"
    /\ results' = <<>>
    /\ clsRaw' = <<>>
    /\ genPrompt' = NoPrompt
    /\ genText' = ""
    /\ core' = NoCore
    /\ response' = NoResponse
    /\ UNCHANGED loadVars

-----------------------------------------------------------------------------
(* initialize_app: startup ingestion into the persisted collection *)

Procs == {"p1", "p2"}

\* for lang, q_text in [("english", ...), ("hinglish", ...), ("hindi", ...)]
LangOrder == <<"english", "hinglish", "hindi">>

EntryIds == 1..NumEntries

QuestionTexts == {<<"q">>, <<" ">>}

\* json_data.json: every entry has the three question variants, any of
\* which may be blank
Corpora == [EntryIds -> [KnownLangs -> QuestionTexts]]

Keys == EntryIds \X KnownLangs

\* f"{item['id']}_{lang}"
Key(id, lang) == <<id, lang>>

Count(coll) == Cardinality(coll)

WorkLen == NumEntries * Len(LangOrder)
ItemAt(c) == (c \div Len(LangOrder)) + 1
LangAt(c) == LangOrder[(c % Len(LangOrder)) + 1]

StoredRecord(id, lang, q_text) ==
    [key |-> Key(id, lang),
     document |-> q_text,
     metadata |-> [answer_english |-> <<id, "english">>,
                   answer_hinglish |-> <<id, "hinglish">>,
                   answer_hindi |-> <<id, "hindi">>,
                   language |-> lang]]

\* collection.add: an id already in the collection is left as it is
Add(coll, rec) ==
    IF \E r \in coll : r.key = rec.key THEN coll ELSE coll \cup {rec}

\* mutation of ShouldIngest: the count() test dropped
AlwaysIngest(coll) == TRUE

\* if collection.count() == 0
ShouldIngest(coll) == Count(coll) = 0

InitLoader ==
    /\ store = {}
    /\ corpus \in Corpora
    /\ lpc = [p \in Procs |-> "down"]
    /\ cursor = [p \in Procs |-> 0]
    /\ addCalls = [k \in Keys |-> 0]
    /\ inserting = {}
    /\ nInserters = 0
    /\ nStartups = 0
    /\ raced = FALSE

\* a process starts: the collection is opened and count() is read
LoaderStart(p) ==
    /\ lpc[p] = "down"
    /\ nStartups < MaxStartups
    /\ nStartups' = nStartups + 1
    /\ raced' = (raced \/ \E q \in Procs \ {p} : lpc[q] = "ingest")
    /\ inserting' = inserting \ {p}
    /\ cursor' = [cursor EXCEPT ![p] = 0]
    /\ lpc' = [lpc EXCEPT ![p] = IF ShouldIngest(store) THEN "ingest"
                                  ELSE "serving"]
    /\ UNCHANGED <<store, corpus, addCalls, nInserters>>
    /\ UNCHANGED reqVars

\* one turn of the inner loop: the blank test, get_embedding, collection.add
IngestStep(p) ==
    /\ lpc[p] = "ingest"
    /\ cursor[p] < WorkLen
    /\ LET id == ItemAt(cursor[p])
           lang == LangAt(cursor[p])
           q_text == corpus[id][lang]
       IN  IF Strip(q_text) = <<>>
           THEN /\ cursor' = [cursor EXCEPT ![p] = @ + 1]
                /\ UNCHANGED <<store, lpc, addCalls, inserting, nInserters>>
           ELSE \/ /\ store' = Add(store, StoredRecord(id, lang, q_text))
                   /\ addCalls' = [addCalls EXCEPT ![Key(id, lang)] = @ + 1]
                   /\ inserting' = inserting \cup {p}
                   /\ nInserters' = IF p \in inserting THEN nInserters
                                     ELSE nInserters + 1
                   /\ cursor' = [cursor EXCEPT ![p] = @ + 1]
                   /\ UNCHANGED lpc
                \/ /\ lpc' = [lpc EXCEPT ![p] = "failed"]
                   /\ UNCHANGED <<store, cursor, addCalls, inserting,
                                  nInserters>>
    /\ UNCHANGED <<corpus, nStartups, raced>>
    /\ UNCHANGED reqVars

\* the loop is over: yield, the application serves requests
IngestDone(p) ==
    /\ lpc[p] = "ingest"
    /\ cursor[p] = WorkLen
    /\ lpc' = [lpc EXCEPT ![p] = "serving"]
    /\ UNCHANGED <<store, corpus, cursor, addCalls, inserting, nInserters,
                   nStartups, raced>>
    /\ UNCHANGED reqVars

\* the process ends (shutdown, or a startup that raised); it may start again
LoaderStop(p) ==
    /\ lpc[p] \in {"serving", "failed"}
    /\ lpc' = [lpc EXCEPT ![p] = "down"]
    /\ UNCHANGED <<store, corpus, cursor, addCalls, inserting, nInserters,
                   nStartups, raced>>
    /\ UNCHANGED reqVars

-----------------------------------------------------------------------------
(* Specifications *)

\* one service instance handling requests
Init ==
    /\ InitRequest
    /\ InitLoader
    /\ corpus = [id \in EntryIds |-> [l \in KnownLangs |-> <<"q">>]]

Next ==
    \/ ChatReceive
    \/ Embed
    \/ Query
    \/ Classify
    \/ Generate
    \/ Deliver

Spec == Init /\ [][Next]_vars

\* startups of the processes sharing one persisted collection
LoaderInit ==
    /\ InitRequest
    /\ InitLoader

LoaderNext ==
    \E p \in Procs :
        \/ LoaderStart(p)
        \/ IngestStep(p)
        \/ IngestDone(p)
        \/ LoaderStop(p)

LoaderSpec == LoaderInit /\ [][LoaderNext]_vars

-----------------------------------------------------------------------------
(* Properties of rag_answer *)

Called(c) == \E i \in 1..Len(calls) : calls[i] = c
TimesCalled(c) == Cardinality({i \in 1..Len(calls) : calls[i] = c})
ClassifierReturned == Called("classify") /\ failedAt # "classify"
Yes == <<"Y", "E", "S">>

\* C1: when the index returned a neighbour, the nearest one is within
\* 1 - similarity_threshold and its language tag is english, hindi or
\* hinglish, the call has returned the answer variant of that neighbour's
\* own metadata named by the tag, with score exactly 1 - d, after the embed
\* and query calls only (no classifier call, no generator call).
C1_MatchReturnsStoredAnswer ==
    (/\ results # <<>>
     /\ results[1].distance <= One - threshold
     /\ results[1].metadata.language \in {"english", "hindi", "hinglish"})
    => LET m == results[1].metadata
       IN  /\ pc = "done"
           /\ core.kind = "ret"
           /\ m.language = "english" => core.text = m.answer_english
           /\ m.language = "hindi" => core.text = m.answer_hindi
           /\ m.language = "hinglish" => core.text = m.answer_hinglish
           /\ core.score = One - results[1].distance
           /\ calls = <<"embed", "query">>

\* scenario 2 of the spec: distance 0.1, threshold 0.7, english neighbour
C1_Witness ==
    /\ pc = "done"
    /\ results # <<>>
    /\ results[1].distance = 10000
    /\ threshold = DefaultThreshold
    /\ results[1].metadata.language = "english"
    /\ core = Returned("en1", 90000)

\* a folio keyword occurs in q, compared letter by letter without case
KeywordOccurs(q) ==
    \E kw \in {KwFolio, KwFolioHindi} :
        \E i \in 0..(Len(q) - Len(kw)) :
            \A j \in 1..Len(kw) : q[i + j] \in {kw[j], UpperChar(kw[j])}

\* q holds n digits in a row
DigitsInARow(q, n) ==
    \E i \in 0..(Len(q) - n) : \A j \in 1..n : q[i + j] \in Digits

GuardFired ==
    /\ pc = "done"
    /\ core = Returned(FolioRefusal, 0)
    /\ calls = <<>>

\* C2: for a question that entered rag_answer, the guard has returned the
\* folio refusal with score 0.0 and without any external call exactly when
\* the question holds a folio keyword (any case) and 8 digits in a row;
\* a question without 8 digits in a row never gets the folio refusal.
C2_FolioGuardExact ==
    (pc # "idle" /\ ~IsBlank(question))
    => /\ GuardFired <=> (KeywordOccurs(question) /\ DigitsInARow(question, 8))
       /\ ~DigitsInARow(question, 8) => core.text # FolioRefusal

C2_Witness ==
    /\ GuardFired
    /\ question = <<"F", "o", "L", "I", "O">>
                    \o <<"1", "2", "3", "4", "5", "6", "7", "8">>
    /\ response = QueryResponse(question, FolioRefusal, 0)

\* C3: once the classifier has replied and its reply, trimmed and
\* upper-cased, is not exactly "YES", the call has returned the domain
\* refusal with score 0.0 and the generator was never invoked.
C3_ClosedWorldGate ==
    (ClassifierReturned /\ Upper(Strip(clsRaw)) # Yes)
    => /\ pc = "done"
       /\ core = Returned(DomainRefusal, 0)
       /\ ~Called("generate")
       /\ genPrompt = NoPrompt

C3_Witness ==
    /\ pc = "done"
    /\ ClassifierReturned
    /\ clsRaw = <<"Y", "E", "S", ".">>
    /\ core = Returned(DomainRefusal, 0)
    /\ calls = <<"embed", "query", "classify">>

PromptHolds(i) ==
    \E j \in 1..Len(genPrompt.contexts) :
        /\ genPrompt.contexts[j].q = results[i].document
        /\ genPrompt.contexts[j].a_english = results[i].metadata.answer_english
        /\ genPrompt.contexts[j].a_hindi = results[i].metadata.answer_hindi

\* C4: when the nearest neighbour is no match and the classifier's
\* normalized reply is "YES", the request goes on to the generator; once it
\* is over the generator was invoked exactly once, with a prompt holding the
\* question text, English answer and Hindi answer of every retrieved
\* neighbour and the original question, and what it returned is the
\* generator's text with score 1 - d of the first neighbour.
C4_GeneratedFallback ==
    (/\ results # <<>>
     /\ results[1].distance > One - threshold
     /\ ClassifierReturned
     /\ Upper(Strip(clsRaw)) = Yes)
    => /\ pc \in {"generate", "done"}
       /\ pc = "generate" => TimesCalled("generate") = 0
       /\ pc = "done" =>
            /\ TimesCalled("generate") = 1
            /\ \A i \in 1..Len(results) : PromptHolds(i)
            /\ genPrompt.user_query = question
            /\ failedAt = "none" =>
                 /\ genText \in GeneratorReplies
                 /\ core = Returned(genText, One - results[1].distance)

\* scenario 4 of the spec, with a second neighbour farther away
C4_Witness ==
    /\ pc = "done"
    /\ Len(results) = 2
    /\ results[1].distance = 90000
    /\ results[2].distance # results[1].distance
    /\ threshold = DefaultThreshold
    /\ clsRaw = <<" ", "Y", "E", "S", "\n">>
    /\ core = Returned("generated answer", 10000)

\* C5: a match (d <= 1 - t) always ends the request in the stored-answer
\* branch, whatever the nearest neighbour's metadata, and any classifier or
\* generator call implies d > 1 - t.
C5_ThresholdTerminal ==
    /\ (results # <<>> /\ results[1].distance <= One - threshold)
       => /\ pc = "done"
          /\ core.kind = "ret"
          /\ core.text \in {results[1].metadata.answer_english,
                            results[1].metadata.answer_hindi,
                            results[1].metadata.answer_hinglish}
    /\ (Called("classify") \/ Called("generate"))
       => results[1].distance > One - threshold

-----------------------------------------------------------------------------
(* Properties of chat() *)

\* C6: an empty or whitespace-only question reaches the caller as status
\* 400, raised before the core is called, every error raised by rag_answer
\* as status 500, and the two are never the same status.
C6_ValidationDistinguished ==
    pc = "done"
    => /\ IsBlank(question) => (response.http = 400 /\ core = NoCore)
       /\ core.kind = "raise" => response.http = 500

\* v is x rounded to 4 decimal places, a tie going to the even digit
IsRounded4(v, x) ==
    /\ v % 10 = 0
    /\ v - x <= 5
    /\ x - v <= 5
    /\ (v - x = 5 \/ x - v = 5) => (v \div 10) % 2 = 0

Refusals == {FolioRefusal, NoSimilar, DomainRefusal}

\* C7 as stated: every return of the core, refusals included, reaches the
\* caller as a success response whose similarity_score is the number the
\* core returned, rounded to 4 places, 0.0 for a core score of exactly 0.
C7_ScoreAlwaysNumeric ==
    (pc = "done" /\ core.kind = "ret")
    => /\ response.http = 200
       /\ response.status = "success"
       /\ response.bot_response = core.text
       /\ Len(response.similarity_score) = 1
       /\ IsRounded4(response.similarity_score[1], core.score)

\* C7 as amended: every return of the core reaches the caller as a success
\* response carrying the core's text; its similarity_score is null when the
\* core's score is exactly 0 (so for every refusal) and otherwise the
\* core's score rounded to 4 places.
C7_RefusalIsSuccessNullScore ==
    (pc = "done" /\ core.kind = "ret")
    => /\ response.http = 200
       /\ response.status = "success"
       /\ response.user_query = question
       /\ response.bot_response = core.text
       /\ core.score = 0 => response.similarity_score = None
       /\ core.text \in Refusals => response.similarity_score = None
       /\ core.score # 0 =>
            /\ Len(response.similarity_score) = 1
            /\ IsRounded4(response.similarity_score[1], core.score)

C7_Witness ==
    /\ pc = "done"
    /\ core = Returned(DomainRefusal, 0)
    /\ response.http = 200
    /\ response.bot_response = DomainRefusal
    /\ response.similarity_score = None

Pipeline == <<"embed", "query", "classify", "generate">>

\* C8: the external calls of a request are a prefix of embed, query,
\* classify, generate (in that order, each at most once); a call that
\* failed is the last call of the request, which is over with a failure
\* (status 500) for the caller.
C8_SequentialNoRetry ==
    /\ Len(calls) <= Len(Pipeline)
    /\ \A i \in 1..Len(calls) : calls[i] = Pipeline[i]
    /\ failedAt # "none" =>
         /\ pc = "done"
         /\ calls # <<>>
         /\ calls[Len(calls)] = failedAt
         /\ core.kind = "raise"
         /\ response.http = 500

C8_Witness ==
    /\ pc = "done"
    /\ failedAt = "classify"
    /\ calls = <<"embed", "query", "classify">>
    /\ response.http = 500

-----------------------------------------------------------------------------
(* Properties of initialize_app *)

Stored(id, lang) == \E r \in store : r.key = Key(id, lang)

\* C9: whenever a startup has finished and the service handles requests
\* (no other startup being under way), every (entry, language) pair whose
\* question is not blank has a stored vector keyed {id}_{language}.
C9_IndexComplete ==
    (/\ \E p \in Procs : lpc[p] = "serving"
     /\ \A p \in Procs : lpc[p] # "ingest")
    => \A id \in EntryIds, lang \in KnownLangs :
          Strip(corpus[id][lang]) # <<>> => Stored(id, lang)

\* C10 as stated: over any startups against the same store, interleaved
\* ones included, at most one startup issues inserts and no key is inserted
\* more than once.
C10_PopulatedOnce ==
    /\ nInserters <= 1
    /\ \A k \in Keys : addCalls[k] <= 1

\* C10 as amended: as long as no startup has read count() while another
\* startup was between its own count() and the end of its ingestion, at
\* most one startup issues inserts and no key is inserted more than once.
C10_PopulatedOnceUnlessRaced ==
    ~raced => (nInserters <= 1 /\ \A k \in Keys : addCalls[k] <= 1)

\* a second startup, after the first has populated the store, skipped
C10_Witness ==
    /\ ~raced
    /\ nStartups >= 2
    /\ nInserters = 1
    /\ store # {}
    /\ \E p \in Procs : lpc[p] = "serving" /\ p \notin inserting

====
